---- MODULE Spec2Model ----
(***************************************************************************)
(* Model of regrid.py: the regrid_data routine (per-timestep bilinear      *)
(* interpolation of a source DataArray onto a target grid, with the        *)
(* target's NaN mask propagated by the "+ 0 * target" trick) and the       *)
(* script around it (read two files, call regrid_data once, save).         *)
(*                                                                         *)
(* Numbers are exact rationals, so the model says nothing about floating   *)
(* point rounding.  A labelled array keeps its dimension order: the code   *)
(* mixes label-based xarray calls (sel, interp) with positional numpy      *)
(* arithmetic and assignment, and the difference is observable.            *)
(***************************************************************************)
EXTENDS Integers, Sequences, FiniteSets, TLC

\* ------------------------------------------------------------------ bounds
\* Largest number of timesteps of the source that is explored.
MaxT == 3

\* ------------------------------------------------------------------ values
\* A cell value: a rational num/den (den > 0, lowest terms), NaN, +Inf, or
\* the unspecified content of a freshly allocated np.empty buffer.
Num(n, d) == [kind |-> "num", num |-> n, den |-> d]
NaN == [kind |-> "nan", num |-> 0, den |-> 1]
Inf == [kind |-> "inf", num |-> 0, den |-> 1]
Uninit == [kind |-> "uninit", num |-> 0, den |-> 1]
Int2V(n) == Num(n, 1)

Abs(n) == IF n < 0 THEN -n ELSE n

RECURSIVE Gcd(_, _)
Gcd(a, b) == IF b = 0 THEN a ELSE Gcd(b, a % b)

\* The rational n/d (d # 0) in lowest terms with a positive denominator.
Rat(n, d) ==
    LET g == Gcd(Abs(n), Abs(d))
        s == IF d < 0 THEN -1 ELSE 1
    IN  Num((s * n) \div g, (s * d) \div g)

IsNum(v) == v.kind = "num"

\* IEEE arithmetic on the values that occur: NaN is absorbing.
VAdd(a, b) ==
    IF IsNum(a) /\ IsNum(b)
    THEN Rat(a.num * b.den + b.num * a.den, a.den * b.den)
    ELSE NaN
VSub(a, b) ==
    IF IsNum(a) /\ IsNum(b)
    THEN Rat(a.num * b.den - b.num * a.den, a.den * b.den)
    ELSE NaN
VMul(a, b) ==
    IF IsNum(a) /\ IsNum(b) THEN Rat(a.num * b.num, a.den * b.den) ELSE NaN
VDiv(a, b) ==
    IF IsNum(a) /\ IsNum(b) /\ b.num # 0
    THEN Rat(a.num * b.den, a.den * b.num)
    ELSE NaN

\* 0 * v as numpy computes it: 0 for a finite number, NaN for NaN and for Inf.
MulZero(v) == IF IsNum(v) THEN Int2V(0) ELSE NaN

\* ------------------------------------------------------------------ sequences
\* Position of element e in the sequence s (e occurs in s).
IndexOf(s, e) == CHOOSE k \in 1..Len(s) : s[k] = e
\* s without its p-th element.
RemoveAt(s, p) == [k \in 1..(Len(s) - 1) |-> IF k < p THEN s[k] ELSE s[k + 1]]
\* s with e inserted so that it becomes the p-th element.
InsertAt(s, p, e) ==
    [k \in 1..(Len(s) + 1) |-> IF k < p THEN s[k] ELSE IF k = p THEN e ELSE s[k - 1]]
\* s with its p-th element replaced by e.
SetAt(s, p, e) == [s EXCEPT ![p] = e]

\* ------------------------------------------------------------------ numpy arrays
\* An n-dimensional array: its shape and a value per index tuple (1-based).
RECURSIVE Indices(_)
Indices(shape) ==
    IF Len(shape) = 0 THEN {<<>>}
    ELSE {<<k>> \o rest : k \in 1..shape[1], rest \in Indices(Tail(shape))}

\* A raised exception, as a value.
Raised(what) == [err |-> what]
IsErr(x) == "err" \in DOMAIN x

\* numpy's broadcast of two shapes: aligned at the trailing dimension, a pair of
\* lengths is compatible when they are equal or one of them is 1.
PadShape(shape, n) == [k \in 1..n |-> IF k <= n - Len(shape) THEN 1 ELSE shape[k - (n - Len(shape))]]
MaxOf(a, b) == IF a >= b THEN a ELSE b
BroadcastOk(sa, sb) ==
    LET n == MaxOf(Len(sa), Len(sb))
        pa == PadShape(sa, n)
        pb == PadShape(sb, n)
    IN  \A k \in 1..n : pa[k] = pb[k] \/ pa[k] = 1 \/ pb[k] = 1
BroadcastShape(sa, sb) ==
    LET n == MaxOf(Len(sa), Len(sb))
        pa == PadShape(sa, n)
        pb == PadShape(sb, n)
    IN  [k \in 1..n |-> IF pa[k] = 1 THEN pb[k] ELSE pa[k]]
\* The index into an array of shape `shape` that the index ix of a broadcast
\* result (of at least as many dimensions) reads.
BroadcastIndex(shape, ix) ==
    LET off == Len(ix) - Len(shape)
    IN  [k \in 1..Len(shape) |-> IF shape[k] = 1 THEN 1 ELSE ix[k + off]]

\* a + b for two numpy arrays: elementwise over the broadcast shape, or a
\* ValueError when the shapes do not broadcast.
NpAdd(a, b) ==
    IF ~BroadcastOk(a.shape, b.shape) THEN Raised("ValueError")
    ELSE LET shape == BroadcastShape(a.shape, b.shape)
         IN  [shape |-> shape,
              data |-> [ix \in Indices(shape) |->
                          VAdd(a.data[BroadcastIndex(a.shape, ix)],
                               b.data[BroadcastIndex(b.shape, ix)])]]

\* 0 * a, elementwise.
NpMulZero(a) == [shape |-> a.shape, data |-> [ix \in Indices(a.shape) |-> MulZero(a.data[ix])]]

\* a.squeeze(): every dimension of length 1 is removed.
KeptAxes(shape) == SelectSeq([k \in 1..Len(shape) |-> k], LAMBDA k : shape[k] # 1)
NpSqueeze(a) ==
    LET kept == KeptAxes(a.shape)
        shape == [k \in 1..Len(kept) |-> a.shape[kept[k]]]
    IN  [shape |-> shape,
         data |-> [ix \in Indices(shape) |->
                     a.data[[k \in 1..Len(a.shape) |->
                               IF a.shape[k] = 1 THEN 1 ELSE ix[IndexOf(kept, k)]]]]]

\* np.empty(shape): a buffer whose content is unspecified.
NpEmpty(shape) == [shape |-> shape, data |-> [ix \in Indices(shape) |-> Uninit]]

\* The shape of a value once its leading dimensions of length 1 in excess of
\* n dimensions are dropped, as numpy does on assignment.
RECURSIVE StripLeadingOnes(_, _)
StripLeadingOnes(shape, n) ==
    IF Len(shape) > n /\ shape[1] = 1 THEN StripLeadingOnes(Tail(shape), n) ELSE shape
\* Can a value of shape sv be assigned to a slot of shape slot?
AssignOk(sv, slot) ==
    LET s == StripLeadingOnes(sv, Len(slot))
    IN  /\ Len(s) <= Len(slot)
        /\ LET ps == PadShape(s, Len(slot))
           IN  \A k \in 1..Len(slot) : ps[k] = slot[k] \/ ps[k] = 1

\* The assignment with the index forgotten, arr[..., 0] = val: every iteration
\* stores into the first slice.
NpSetFirstSlice(arr, i, val) ==
    LET slot == SubSeq(arr.shape, 1, Len(arr.shape) - 1)
    IN  IF ~AssignOk(val.shape, slot) THEN Raised("ValueError")
        ELSE [shape |-> arr.shape,
              data |-> [ix \in Indices(arr.shape) |->
                 IF ix[Len(ix)] # 1 THEN arr.data[ix]
                 ELSE val.data[BroadcastIndex(val.shape, SubSeq(ix, 1, Len(ix) - 1))]]]

\* arr[..., i] = val for a 3-d arr: val is broadcast to the slot arr[..., i]
\* and every cell of the slot is overwritten; ValueError when val does not
\* broadcast to the slot.
NpSetLastAxis(arr, i, val) ==
    LET slot == SubSeq(arr.shape, 1, Len(arr.shape) - 1)
    IN  IF ~AssignOk(val.shape, slot) THEN Raised("ValueError")
        ELSE LET s == StripLeadingOnes(val.shape, Len(slot))
                 lead == Len(val.shape) - Len(s)
             IN  [shape |-> arr.shape,
                  data |-> [ix \in Indices(arr.shape) |->
                     IF ix[Len(ix)] # i THEN arr.data[ix]
                     ELSE LET six == BroadcastIndex(s, SubSeq(ix, 1, Len(ix) - 1))
                          IN  val.data[[k \in 1..lead |-> 1] \o six]]]

\* ------------------------------------------------------------------ xarray
\* A DataArray: the dimension names in storage order, the coordinate values of
\* the three axes, and the values as a numpy array in that dimension order.
\* A DataArray from which sel() dropped the time dimension keeps the selected
\* label as its (scalar) time coordinate.
AxisOf(da, d) == IndexOf(da.dims, d)

\* The DataArray with the given storage order whose value at (time position t,
\* latitude index a, longitude index b) is slabs[t][a][b].
MkDataArray(name, dims, time, lat, lon, slabs) ==
    LET coords == [time |-> time, latitude |-> lat, longitude |-> lon]
        shape == [k \in 1..Len(dims) |-> Len(coords[dims[k]])]
        pt == IndexOf(dims, "time")
        pa == IndexOf(dims, "latitude")
        pb == IndexOf(dims, "longitude")
    IN  [name |-> name, dims |-> dims, coords |-> coords,
         values |-> [shape |-> shape,
                     data |-> [ix \in Indices(shape) |-> slabs[ix[pt]][ix[pa]][ix[pb]]]]]

\* The positions of the time axis that carry the label, in axis order.
Matches(time, label) == SelectSeq([k \in 1..Len(time) |-> k], LAMBDA k : time[k] = label)

\* da.sel(time=label): a label that occurs once selects that position and drops
\* the time dimension; a label that occurs several times selects all of its
\* positions and keeps the time dimension.
Sel(da, label) ==
    LET pos == Matches(da.coords.time, label)
        pt == AxisOf(da, "time")
    IN  IF Len(pos) = 1
        THEN LET shape == RemoveAt(da.values.shape, pt)
             IN  [name |-> da.name,
                  dims |-> RemoveAt(da.dims, pt),
                  coords |-> [da.coords EXCEPT !.time = <<label>>],
                  values |-> [shape |-> shape,
                              data |-> [ix \in Indices(shape) |->
                                          da.values.data[InsertAt(ix, pt, pos[1])]]]]
        ELSE LET shape == SetAt(da.values.shape, pt, Len(pos))
             IN  [name |-> da.name,
                  dims |-> da.dims,
                  coords |-> [da.coords EXCEPT !.time = [k \in 1..Len(pos) |-> label]],
                  values |-> [shape |-> shape,
                              data |-> [ix \in Indices(shape) |->
                                          da.values.data[SetAt(ix, pt, pos[ix[pt]])]]]]

\* The positions of xs in ascending order of their (distinct) values.
SortedPositions(xs) ==
    [k \in 1..Len(xs) |->
        CHOOSE j \in 1..Len(xs) : Cardinality({m \in 1..Len(xs) : xs[m] < xs[j]}) = k - 1]

\* da.sortby(d): the array reordered along d so that d's coordinate ascends
\* (interp sorts the array it interpolates, assume_sorted being False).
SortBy(da, d) ==
    LET p == AxisOf(da, d)
        ord == SortedPositions(da.coords[d])
    IN  [da EXCEPT !.coords[d] = [k \in 1..Len(ord) |-> da.coords[d][ord[k]]],
                   !.values.data = [ix \in Indices(da.values.shape) |->
                                      da.values.data[SetAt(ix, p, ord[ix[p]])]]]

\* Linear interpolation of the points (xs[k], ys[k]), xs ascending with at least
\* two points, at x: NaN outside [xs[1], xs[n]]; inside, the segment is found by
\* a left bisection clipped to the axis and the value is
\* slope * (x - x_lo) + y_lo, so a NaN at either end of the segment gives NaN
\* even where x coincides with the other end.
Lin1D(xs, ys, x) ==
    LET n == Len(xs)
        below == Cardinality({k \in 1..n : xs[k] < x})
        lo == IF below < 1 THEN 1 ELSE IF below > n - 1 THEN n - 1 ELSE below
        hi == lo + 1
        slope == VDiv(VSub(ys[hi], ys[lo]), Int2V(xs[hi] - xs[lo]))
    IN  IF x < xs[1] \/ x > xs[n] THEN NaN
        ELSE VAdd(VMul(slope, Int2V(x - xs[lo])), ys[lo])

\* Interpolation of da along its dimension d onto the coordinate values newx.
InterpAlong(da, d, newx) ==
    LET sorted == SortBy(da, d)
        p == AxisOf(sorted, d)
        xs == sorted.coords[d]
        shape == SetAt(sorted.values.shape, p, Len(newx))
    IN  [sorted EXCEPT !.coords[d] = newx,
                       !.values = [shape |-> shape,
                                   data |-> [ix \in Indices(shape) |->
                                      Lin1D(xs,
                                            [k \in 1..Len(xs) |-> sorted.values.data[SetAt(ix, p, k)]],
                                            newx[ix[p]])]]]

\* da.interp(latitude=lat, longitude=lon): linear interpolation along latitude,
\* then along longitude; the dimension order of da is kept.
Interp(da, lat, lon) == InterpAlong(InterpAlong(da, "latitude", lat), "longitude", lon)

\* da + arr for a DataArray and a bare numpy array: the values are added
\* position by position under numpy's broadcasting, the dimension names are
\* those of da, and the result must have as many dimensions as da has names.
XrAddArray(da, arr) ==
    LET r == NpAdd(da.values, arr)
    IN  IF IsErr(r) THEN r
        ELSE IF Len(r.shape) # Len(da.dims) THEN Raised("ValueError")
        ELSE [da EXCEPT !.values = r]

\* ------------------------------------------------------------------ regrid_data
\* The target at its first date.
FirstDateData(target_data) == Sel(target_data, target_data.coords.time[1])

\* The buffer for the regridded data: target latitudes x target longitudes x
\* source timesteps, content unspecified.
EmptyRegriddedArray(input_data, first_date_data) ==
    NpEmpty(<<Len(first_date_data.coords.latitude),
              Len(first_date_data.coords.longitude),
              Len(input_data.coords.time)>>)

\* 0 * first_date_data.data.squeeze(): the bare values of the target slice,
\* without dimensions of length 1 and without dimension names.
ZeroTimesTarget(first_date_data) == NpMulZero(NpSqueeze(first_date_data.values))

\* The selection with the loop's label ignored: always the first label.
OriginalFirst(input_data, i) == Sel(input_data, input_data.coords.time[1])

\* The source at the time label found at position i of its time axis.
Original(input_data, i) == Sel(input_data, input_data.coords.time[i])

\* One interpolated and masked slab, or the exception the addition raises.
Regridded(input_data, first_date_data, i) ==
    XrAddArray(Interp(Original(input_data, i),
                      first_date_data.coords.latitude,
                      first_date_data.coords.longitude),
               ZeroTimesTarget(first_date_data))

\* The body of the loop for position i: the buffer with slab i stored, or the
\* exception raised.
LoopBody(input_data, first_date_data, regridded_array, i) ==
    LET regridded == Regridded(input_data, first_date_data, i)
    IN  IF IsErr(regridded) THEN regridded
        ELSE NpSetLastAxis(regridded_array, i, regridded.values)

\* The Dataset built from the filled buffer: one variable over
\* (latitude, longitude, time), named after the source.
MkDataset(input_data, target_data, regridded_array) ==
    [name |-> input_data.name \o <<"_REGRIDDED">>,
     dims |-> <<"latitude", "longitude", "time">>,
     latitude |-> target_data.coords.latitude,
     longitude |-> target_data.coords.longitude,
     time |-> input_data.coords.time,
     values |-> regridded_array]

\* The loop from position i on, as a function of the buffer so far.
RECURSIVE RunLoop(_, _, _, _)
RunLoop(input_data, first_date_data, regridded_array, i) ==
    IF i > Len(input_data.coords.time) THEN regridded_array
    ELSE LET next == LoopBody(input_data, first_date_data, regridded_array, i)
         IN  IF IsErr(next) THEN next
             ELSE RunLoop(input_data, first_date_data, next, i + 1)

\* regrid_data as a function: the Dataset returned, or the exception raised.
RegridData(input_data, target_data) ==
    LET first_date_data == FirstDateData(target_data)
        filled == RunLoop(input_data, first_date_data,
                          EmptyRegriddedArray(input_data, first_date_data), 1)
    IN  IF IsErr(filled) THEN filled
        ELSE MkDataset(input_data, target_data, filled)

\* ------------------------------------------------------------------ inputs
\* Storage orders of a (time, latitude, longitude) array that are explored:
\* time first, the two spatial dimensions in either order.  (sel() removes the
\* time dimension of a uniquely labelled timestep wherever it stands.)
DimOrders ==
    {<<"time", "latitude", "longitude">>, <<"time", "longitude", "latitude">>}

\* Source time axes of n timesteps: the labels 1..n ascending, the same
\* descending, and the ascending axis with one label repeated at a later
\* position.
SrcTimes(n) ==
    {[k \in 1..n |-> k], [k \in 1..n |-> n + 1 - k]}
    \cup {[k \in 1..n |-> IF k = q THEN p ELSE k] : <<p, q>> \in {pq \in (1..n) \X (1..n) : pq[1] < pq[2]}}

\* Source grid: 2 x 2, latitudes 2 and 0 (descending, as many model grids store
\* them), longitudes 0 and 4.
SrcLat == <<2, 0>>
SrcLon == <<0, 4>>
\* Source slabs, as [latitude index][longitude index]; the second has a
\* missing cell.
SrcSlabCycle ==
    <<<<<<Int2V(1), Int2V(2)>>, <<Int2V(3), Int2V(4)>>>>,
      <<<<Int2V(5), NaN>>, <<Int2V(7), Int2V(8)>>>>,
      <<<<Int2V(9), Int2V(10)>>, <<Int2V(11), Int2V(12)>>>>>>
\* Source payloads of n timesteps: the first slab at every timestep, and the
\* slabs in rotation starting from the first or from the second.
SrcSlabSeqs(n) ==
    {[k \in 1..n |-> SrcSlabCycle[1]]}
    \cup {[k \in 1..n |-> SrcSlabCycle[((k - 1 + off) % Len(SrcSlabCycle)) + 1]] : off \in {0, 1}}

Sources ==
    {MkDataArray(<<"PM25_CMIP">>, dims, ts[1], SrcLat, SrcLon, ts[2]) :
        dims \in DimOrders,
        ts \in UNION {SrcTimes(n) \X SrcSlabSeqs(n) : n \in 0..MaxT}}

\* Target grids <<latitudes, longitudes>>: the source's own grid, grids with a
\* single latitude or longitude inside the source's range, and a grid with
\* points outside it.
TgtGrids ==
    {<<<<2, 0>>, <<0, 4>>>>,
     <<<<2, 0>>, <<2>>>>,
     <<<<1>>, <<0, 4>>>>,
     <<<<1>>, <<2>>>>,
     <<<<-1, 1>>, <<1, 5>>>>}
\* Target time axes: the first label may recur.
TgtTimes == {<<1>>, <<1, 1>>, <<1, 2>>}
\* Target slabs at the first position of the time axis, as 2 x 2 patterns cut
\* to the grid, and the slab at the other positions.
TgtFirstSlabs ==
    {<<<<Int2V(7), Int2V(7)>>, <<Int2V(7), Int2V(7)>>>>,
     <<<<Int2V(7), NaN>>, <<Int2V(7), Int2V(7)>>>>,
     <<<<Int2V(1), Int2V(1)>>, <<NaN, Int2V(1)>>>>,
     <<<<Inf, Int2V(7)>>, <<Int2V(7), Int2V(7)>>>>,
     <<<<NaN, NaN>>, <<NaN, NaN>>>>}
TgtOtherSlab == <<<<NaN, Int2V(7)>>, <<Int2V(7), Int2V(7)>>>>
Crop(slab, nlat, nlon) == [a \in 1..nlat |-> [b \in 1..nlon |-> slab[a][b]]]

Targets ==
    {MkDataArray(<<"PM25_VAND">>, dims, time, g[1], g[2],
                 [t \in 1..Len(time) |->
                    Crop(IF t = 1 THEN first ELSE TgtOtherSlab, Len(g[1]), Len(g[2]))]) :
        dims \in DimOrders, time \in TgtTimes, g \in TgtGrids,
        first \in TgtFirstSlabs}

\* ------------------------------------------------------------------ the script
VARIABLES
    pc,                    \* position in the script
    model_data,            \* PM25_CMIP of the first file, once read
    satellite_data,        \* PM25_VAND of the second file, once read
    first_date_data,       \* regrid_data's local
    regridded_array,       \* regrid_data's buffer
    i,                     \* regrid_data's loop position
    regridded_model_data,  \* what regrid_data returned
    outFile,               \* content of the output path
    failed,                \* where the run raised, if it did
    calls                  \* number of calls of regrid_data so far

vars ==
    <<pc, model_data, satellite_data, first_date_data, regridded_array, i,
      regridded_model_data, outFile, failed, calls>>

None == [none |-> TRUE]
Absent == [file |-> "absent"]
Partial == [file |-> "partial"]

Init ==
    /\ pc = "read_model"
    /\ model_data = None
    /\ satellite_data = None
    /\ first_date_data = None
    /\ regridded_array = None
    /\ i = 0
    /\ regridded_model_data = None
    /\ outFile = Absent
    /\ failed = "no"
    /\ calls = 0

\* xr.open_dataset of the model file, and ["PM25_CMIP"].
ReadModel ==
    /\ pc = "read_model"
    /\ \E d \in Sources : model_data' = d
    /\ pc' = "read_satellite"
    /\ UNCHANGED <<satellite_data, first_date_data, regridded_array, i,
                   regridded_model_data, outFile, failed, calls>>

\* xr.open_dataset of the satellite file, and ["PM25_VAND"].
ReadSatellite ==
    /\ pc = "read_satellite"
    /\ \E d \in Targets : satellite_data' = d
    /\ pc' = "regrid"
    /\ UNCHANGED <<model_data, first_date_data, regridded_array, i,
                   regridded_model_data, outFile, failed, calls>>

\* Either read raises (no such file, no such variable): the script ends.
ReadFails ==
    /\ pc \in {"read_model", "read_satellite"}
    /\ pc' = "aborted"
    /\ failed' = "load"
    /\ UNCHANGED <<model_data, satellite_data, first_date_data, regridded_array, i,
                   regridded_model_data, outFile, calls>>

\* regrid_data is entered: the first date of the target is selected and the
\* buffer is allocated.
RegridEnter ==
    /\ pc = "regrid"
    /\ calls' = calls + 1
    /\ first_date_data' = FirstDateData(satellite_data)
    /\ regridded_array' = EmptyRegriddedArray(model_data, FirstDateData(satellite_data))
    /\ i' = 1
    /\ pc' = "loop"
    /\ UNCHANGED <<model_data, satellite_data, regridded_model_data, outFile, failed>>

\* np.empty cannot allocate the buffer: MemoryError.
AllocFails ==
    /\ pc = "regrid"
    /\ calls' = calls + 1
    /\ pc' = "aborted"
    /\ failed' = "alloc"
    /\ UNCHANGED <<model_data, satellite_data, first_date_data, regridded_array, i,
                   regridded_model_data, outFile>>

\* One iteration of the loop that stores its slab.
LoopIterate ==
    /\ pc = "loop"
    /\ i <= Len(model_data.coords.time)
    /\ LET next == LoopBody(model_data, first_date_data, regridded_array, i)
       IN  /\ ~IsErr(next)
           /\ regridded_array' = next
    /\ i' = i + 1
    /\ UNCHANGED <<pc, model_data, satellite_data, first_date_data,
                   regridded_model_data, outFile, failed, calls>>

\* The exception of an iteration swallowed: regrid_data returns the buffer as
\* it stands and the script goes on to save it.
LoopRaisesSwallowed ==
    /\ pc = "loop"
    /\ i <= Len(model_data.coords.time)
    /\ IsErr(LoopBody(model_data, first_date_data, regridded_array, i))
    /\ regridded_model_data' = MkDataset(model_data, satellite_data, regridded_array)
    /\ pc' = "save"
    /\ UNCHANGED <<model_data, satellite_data, first_date_data, regridded_array, i,
                   outFile, failed, calls>>

\* One iteration of the loop that raises: regrid_data and the script end.
LoopRaises ==
    /\ pc = "loop"
    /\ i <= Len(model_data.coords.time)
    /\ IsErr(LoopBody(model_data, first_date_data, regridded_array, i))
    /\ pc' = "aborted"
    /\ failed' = "regrid"
    /\ UNCHANGED <<model_data, satellite_data, first_date_data, regridded_array, i,
                   regridded_model_data, outFile, calls>>

\* The loop is over: the Dataset is built and returned.
RegridReturn ==
    /\ pc = "loop"
    /\ i > Len(model_data.coords.time)
    /\ regridded_model_data' = MkDataset(model_data, satellite_data, regridded_array)
    /\ pc' = "save"
    /\ UNCHANGED <<model_data, satellite_data, first_date_data, regridded_array, i,
                   outFile, failed, calls>>

\* to_netcdf writes the Dataset to the output path.
Save ==
    /\ pc = "save"
    /\ outFile' = regridded_model_data
    /\ pc' = "done"
    /\ UNCHANGED <<model_data, satellite_data, first_date_data, regridded_array, i,
                   regridded_model_data, failed, calls>>

\* to_netcdf raises while writing: what it wrote so far stays on disk.
SaveFails ==
    /\ pc = "save"
    /\ outFile' = Partial
    /\ pc' = "aborted"
    /\ failed' = "save"
    /\ UNCHANGED <<model_data, satellite_data, first_date_data, regridded_array, i,
                   regridded_model_data, calls>>

Next ==
    \/ ReadModel
    \/ ReadSatellite
    \/ ReadFails
    \/ RegridEnter
    \/ AllocFails
    \/ LoopIterate
    \/ LoopRaises
    \/ RegridReturn
    \/ Save
    \/ SaveFails

Spec == Init /\ [][Next]_vars

\* ------------------------------------------------------------------ vocabulary of the properties
\* regrid_data has returned its Dataset.
Returned == pc \in {"save", "done"} \/ failed = "save"
\* regrid_data has raised inside its loop.
RaisedInLoop == failed = "regrid"
\* regrid_data has been run on the inputs to its end, one way or the other.
RegridFinished == Returned \/ RaisedInLoop

NTime == Len(model_data.coords.time)
NLat == Len(satellite_data.coords.latitude)
NLon == Len(satellite_data.coords.longitude)

\* The value of a (time, latitude, longitude) DataArray at time position t,
\* latitude index a and longitude index b, whatever its storage order.
At(da, t, a, b) ==
    da.values.data[[k \in 1..Len(da.dims) |->
                      IF da.dims[k] = "time" THEN t
                      ELSE IF da.dims[k] = "latitude" THEN a ELSE b]]
\* The value of a returned Dataset at latitude index a, longitude index b and
\* time index t.
ResultAt(ds, a, b, t) == ds.values.data[<<a, b, t>>]
\* The slab of a returned Dataset at time index t.
ResultSlab(ds, t) ==
    [a \in 1..Len(ds.latitude) |-> [b \in 1..Len(ds.longitude) |-> ResultAt(ds, a, b, t)]]

IsNaN(v) == v.kind = "nan"

UniqueLabels(time) == \A j, k \in 1..Len(time) : time[j] = time[k] => j = k
FirstLabelUnique(time) == \A k \in 2..Len(time) : time[k] # time[1]
LatBeforeLon(da) == AxisOf(da, "latitude") < AxisOf(da, "longitude")
\* Both arrays are stored latitude before longitude, the order the Dataset
\* built by regrid_data declares.
BothLatLon == LatBeforeLon(model_data) /\ LatBeforeLon(satellite_data)
NoUnitAxis == NLat > 1 /\ NLon > 1

\* The source reduced to the timestep at position q of its time axis.
OneStep(da, q) ==
    LET pt == AxisOf(da, "time")
        shape == SetAt(da.values.shape, pt, 1)
    IN  [da EXCEPT !.coords.time = <<da.coords.time[q]>>,
                   !.values = [shape |-> shape,
                               data |-> [ix \in Indices(shape) |->
                                           da.values.data[SetAt(ix, pt, q)]]]]

\* The permutations of 1..n.
Perms(n) == {p \in [1..n -> 1..n] : \A j, k \in 1..n : p[j] = p[k] => j = k}
\* The source with its time axis and its payload permuted by p.
PermuteTime(da, p) ==
    LET pt == AxisOf(da, "time")
    IN  [da EXCEPT !.coords.time = [k \in 1..Len(p) |-> da.coords.time[p[k]]],
                   !.values.data = [ix \in Indices(da.values.shape) |->
                                      da.values.data[SetAt(ix, pt, p[ix[pt]])]]]
\* A returned Dataset with its time axis and its slabs permuted by p.
PermuteResult(ds, p) ==
    [ds EXCEPT !.time = [k \in 1..Len(p) |-> ds.time[p[k]]],
               !.values.data = [ix \in Indices(ds.values.shape) |->
                                  ds.values.data[<<ix[1], ix[2], p[ix[3]]>>]]]

\* Bilinear interpolation of the source slab at time position t at the point
\* (y, x), read through the coordinate labels.
Bilinear(da, t, y, x) ==
    LET la == SortedPositions(da.coords.latitude)
        lo == SortedPositions(da.coords.longitude)
    IN  Lin1D([k \in 1..Len(lo) |-> da.coords.longitude[lo[k]]],
              [k \in 1..Len(lo) |->
                 Lin1D([j \in 1..Len(la) |-> da.coords.latitude[la[j]]],
                       [j \in 1..Len(la) |-> At(da, t, la[j], lo[k])],
                       y)],
              x)

SeqMin(xs) == CHOOSE v \in {xs[k] : k \in 1..Len(xs)} : \A k \in 1..Len(xs) : v <= xs[k]
SeqMax(xs) == CHOOSE v \in {xs[k] : k \in 1..Len(xs)} : \A k \in 1..Len(xs) : v >= xs[k]
OutsideRange(xs, x) == x < SeqMin(xs) \/ x > SeqMax(xs)

\* Slabs for the timestamps of a target after the first.
AltOtherSlabs ==
    {<<<<Int2V(7), Int2V(7)>>, <<Int2V(7), Int2V(7)>>>>,
     <<<<NaN, NaN>>, <<NaN, NaN>>>>,
     TgtOtherSlab}
\* The targets that agree with target_data on the storage order, the grid and
\* the slab at time index 1, and differ in the rest of the time axis.
AltTargets(target_data) ==
    {MkDataArray(target_data.name, target_data.dims, time,
                 target_data.coords.latitude, target_data.coords.longitude,
                 [t \in 1..Len(time) |->
                    IF t = 1
                    THEN [a \in 1..Len(target_data.coords.latitude) |->
                            [b \in 1..Len(target_data.coords.longitude) |->
                               At(target_data, 1, a, b)]]
                    ELSE Crop(other, Len(target_data.coords.latitude),
                              Len(target_data.coords.longitude))]) :
        time \in {tt \in TgtTimes : tt[1] = target_data.coords.time[1]},
        other \in AltOtherSlabs}

\* What this run of regrid_data produced: the Dataset, or the exception.
Outcome == IF Returned THEN regridded_model_data ELSE Raised("ValueError")

\* ------------------------------------------------------------------ properties
\* C1: for every valid source/target pair, targets with a latitude or
\* longitude axis of length 1 included, regrid_data returns a Dataset whose
\* latitude and longitude axes are the target's, whose time axis is the
\* source's, and whose array has shape (latitudes, longitudes, timesteps).
\* Stated for the pairs stored latitude before longitude with no repeated time
\* label.
C1_ShapeInvariant ==
    (/\ RegridFinished
     /\ BothLatLon
     /\ UniqueLabels(model_data.coords.time)
     /\ FirstLabelUnique(satellite_data.coords.time))
    => /\ Returned
       /\ regridded_model_data.latitude = satellite_data.coords.latitude
       /\ regridded_model_data.longitude = satellite_data.coords.longitude
       /\ regridded_model_data.time = model_data.coords.time
       /\ regridded_model_data.values.shape = <<NLat, NLon, NTime>>

\* C2: wherever the target is NaN at its first timestep, the result is NaN at
\* that latitude and longitude for every timestep of the source.
C2_MaskPropagation ==
    Returned =>
        \A a \in 1..NLat, b \in 1..NLon :
            IsNaN(At(satellite_data, 1, a, b))
            => \A t \in 1..NTime : IsNaN(ResultAt(regridded_model_data, a, b, t))

\* C3: when source and target have the same latitude and longitude values and
\* the target's first slice has no NaN, every result slab equals the source
\* slab of the same timestep, cell for cell.  Stated for sources without NaN
\* and target slices of finite values.
C3_IdentityCase ==
    (/\ Returned
     /\ satellite_data.coords.latitude = model_data.coords.latitude
     /\ satellite_data.coords.longitude = model_data.coords.longitude
     /\ \A a \in 1..NLat, b \in 1..NLon : IsNum(At(satellite_data, 1, a, b))
     /\ \A t \in 1..NTime, a \in 1..NLat, b \in 1..NLon : IsNum(At(model_data, t, a, b)))
    => \A t \in 1..NTime, a \in 1..NLat, b \in 1..NLon :
          ResultAt(regridded_model_data, a, b, t) = At(model_data, t, a, b)

\* C4: when regrid_data returns, regridding the source with its timesteps
\* permuted returns the result with its slabs permuted the same way, and every
\* result slab is the slab that regridding that timestep alone gives.
C4_TimestepIndependence ==
    pc = "save" =>
        /\ \A p \in Perms(NTime) :
              RegridData(PermuteTime(model_data, p), satellite_data)
                  = PermuteResult(regridded_model_data, p)
        /\ \A t \in 1..NTime :
              LET alone == RegridData(OneStep(model_data, t), satellite_data)
              IN  /\ ~IsErr(alone)
                  /\ ResultSlab(alone, 1) = ResultSlab(regridded_model_data, t)
\* A run over three timesteps with pairwise different result slabs returned.
C4_Witness ==
    /\ pc = "save"
    /\ NTime = 3
    /\ \A s, t \in 1..NTime :
          s # t => ResultSlab(regridded_model_data, s) # ResultSlab(regridded_model_data, t)

\* C5: a target cell whose latitude or longitude lies strictly outside the
\* range of the source's coordinates is NaN in the result at every timestep.
C5_OutOfHull ==
    Returned =>
        \A a \in 1..NLat, b \in 1..NLon :
            (\/ OutsideRange(model_data.coords.latitude, satellite_data.coords.latitude[a])
             \/ OutsideRange(model_data.coords.longitude, satellite_data.coords.longitude[b]))
            => \A t \in 1..NTime : IsNaN(ResultAt(regridded_model_data, a, b, t))

NoUninit(arr) == \A ix \in DOMAIN arr.data : arr.data[ix] # Uninit

\* C6: regrid_data is called at most once, and only after both inputs are
\* read; the output path is written only after regrid_data returned a Dataset
\* complete for all timesteps, and holds that Dataset when the script is done;
\* when a read, the allocation or the loop raises, the script ends and the
\* output path is untouched.
C6_AllOrNothing ==
    /\ calls <= 1
    /\ calls = 1 => pc \notin {"read_model", "read_satellite"} /\ failed # "load"
    /\ pc \in {"save", "done"} => calls = 1
    /\ outFile # Absent =>
          /\ calls = 1
          /\ Returned
          /\ regridded_model_data.values.shape = <<NLat, NLon, NTime>>
          /\ NoUninit(regridded_model_data.values)
    /\ pc = "done" => outFile = regridded_model_data
    /\ failed \in {"load", "alloc", "regrid"} => pc = "aborted" /\ outFile = Absent
\* The loop raised at its second iteration, the first slab being stored
\* already, and nothing was written.
C6_Witness ==
    /\ RaisedInLoop
    /\ i = 2
    /\ \E ix \in DOMAIN regridded_array.data : regridded_array.data[ix] # Uninit
    /\ outFile = Absent

\* C7: the result depends on the target only through its coordinates and its
\* slab at time index 1: every target that agrees on those, whatever its other
\* timestamps (a later one carrying the first one's label included), gives the
\* same outcome.  Stated for pairs stored latitude before longitude, grids
\* without an axis of length 1 and sources without a repeated time label.
C7_OnlyFirstSlice ==
    (/\ RegridFinished
     /\ BothLatLon
     /\ NoUnitAxis
     /\ UniqueLabels(model_data.coords.time))
    => \A alt \in AltTargets(satellite_data) : RegridData(model_data, alt) = Outcome

\* C8: output slab t is computed from the single source slab stored at
\* position t of the source's time axis, also when a time label occurs at
\* several positions.  Stated for pairs stored latitude before longitude,
\* grids without an axis of length 1 and targets whose first label is unique.
C8_SlabFromPosition ==
    (/\ RegridFinished
     /\ BothLatLon
     /\ NoUnitAxis
     /\ FirstLabelUnique(satellite_data.coords.time))
    => /\ Returned
       /\ \A t \in 1..NTime :
             ResultSlab(regridded_model_data, t)
                 = ResultSlab(RegridData(OneStep(model_data, t), satellite_data), 1)

\* C9: at every target cell whose first-slice value is not NaN, and at every
\* timestep, the result is the bilinear interpolation of the source slab at
\* the cell's latitude and longitude, whatever the storage order of the two
\* arrays.  Stated for the cells whose first-slice value is finite.
C9_MaskIsOverlay ==
    Returned =>
        \A a \in 1..NLat, b \in 1..NLon :
            IsNum(At(satellite_data, 1, a, b))
            => \A t \in 1..NTime :
                  ResultAt(regridded_model_data, a, b, t)
                      = Bilinear(model_data, t, satellite_data.coords.latitude[a],
                                 satellite_data.coords.longitude[b])

\* C10: the loop runs one iteration per source timestep; iteration i stores
\* slab i in full and touches no other slice, so that the slices before i are
\* written and those from i on still hold the buffer's initial content; when
\* regrid_data returns, all slices are written and none holds that content.
C10_LoopWritesEachSliceOnce ==
    /\ [](pc = "loop" =>
            /\ i \in 1..(NTime + 1)
            /\ \A ix \in DOMAIN regridded_array.data :
                  regridded_array.data[ix] = Uninit <=> ix[3] >= i)
    /\ [](Returned =>
            /\ i = NTime + 1
            /\ regridded_model_data.values = regridded_array
            /\ NoUninit(regridded_model_data.values))
    /\ [][LoopIterate =>
            /\ i' = i + 1
            /\ \A ix \in DOMAIN regridded_array.data :
                  ix[3] # i => regridded_array'.data[ix] = regridded_array.data[ix]]_vars
\* A run over three timesteps has returned.
C10_Witness == pc = "save" /\ NTime = 3 /\ i = 4

====
